---- MODULE Spec2Model ----
(***************************************************************************)
(* MikroTik security monitor: the SecurityMonitor store and analyzer       *)
(* (server/security-monitor.js), the device registry, the HTTP handlers    *)
(* and the periodic monitoring loop (server/index.js), and the device      *)
(* collaborator (server/mikrotik-api.js).                                   *)
(*                                                                         *)
(* crypto.randomUUID() is modelled as a fresh value: events, alerts and    *)
(* devices take their ids from per-kind counters, so an id is never        *)
(* reused.  Timestamps and the human-readable description/title strings    *)
(* are left out of the records; every other field is kept.                 *)
(*                                                                         *)
(* Specifications: Spec is the server with no WebSocket client attached;   *)
(* SpecStore drives the store directly, from an empty or a full log;       *)
(* SpecDevices is the registry with PUT and the monitoring loop;           *)
(* SpecRegistry is SpecDevices with routers that report no connections;    *)
(* SpecHub is the WebSocket clients with the handlers announcing a device; *)
(* SpecAnalysis is one call of the analyzer on an enumerated snapshot;     *)
(* SpecQueries is the two readers of the monitor on an enumerated monitor; *)
(* SpecRepeat is the analyzer called twice on one snapshot; SpecRoutes is  *)
(* the device routes without polling and without clients; SpecApp is the   *)
(* dashboard's App component and its WebSocket.                            *)
(***************************************************************************)
EXTENDS Integers, Sequences, FiniteSets, TLC

VARIABLES
    events,          \* SecurityMonitor.events, most recent first
    alerts,          \* SecurityMonitor.alerts, most recent first
    suspiciousIPs,   \* SecurityMonitor.suspiciousIPs
    eventCount,      \* number of event ids drawn so far
    alertCount,      \* number of alert ids drawn so far
    mikrotikDevices, \* keys of the mikrotikDevices Map (ids in insertion order)
    device,          \* the MikroTikAPI objects created so far, by Map key
    tick,            \* the invocations of the cron callback
    polls,           \* number of device polls begun (calls of the analysis)
    clients,         \* wss.clients, in insertion order
    call,            \* the call of the analyzer under observation: its argument
                     \* and, once it is over, what it returned
    out,             \* what the last step answered, broadcast and logged
    app              \* the dashboard's App component: its WebSocket effect

vars == <<events, alerts, suspiciousIPs, eventCount, alertCount,
          mikrotikDevices, device, tick, polls, clients, call, out, app>>

-----------------------------------------------------------------------------
(* Program constants *)

MaxEvents == 1000            \* addSecurityEvent: keep only last 1000 events
MaxAlerts == 100             \* createAlert: keep only last 100 alerts
DefaultLimit == 50           \* getRecentEvents(limit = 50)
MaxConnectionsPerIP == 100   \* connectionThresholds.maxConnectionsPerIP
BroadcastSlice == 10         \* connections.slice(0, 10)
TopPortsSlice == 10          \* topPorts ... .slice(0, 10)

SuspiciousPorts == {1433, 3389, 5432, 6379, 23, 135, 139, 445,
                    4444, 5555, 6666, 31337, 12345}

(* Bounds of the model *)

MaxDevices == 2    \* devices ever added to the registry
MaxTicks == 2      \* invocations of the cron callback
MaxPolls == 2      \* device polls begun, over all ticks
MaxClients == 2    \* WebSocket clients attached at the same time
MaxLen == 3        \* length of the enumerated connection snapshots
MaxSockets == 8    \* WebSockets the App component creates, one after another

DeviceIds == 1..MaxDevices
TickIds == 1..MaxTicks
ClientIds == 1..MaxClients

Min(a, b) == IF a < b THEN a ELSE b

\* The sequence itself, with its elements computed once.
Evaluated(seq) == SubSeq(seq, 1, Len(seq))

-----------------------------------------------------------------------------
(* Connection analysis: SecurityMonitor.performConnectionAnalysis *)

IsSuspiciousPort(port) == port \in SuspiciousPorts

\* getSeverity with 'medium' for a type that is not in its table.
GetSeverityDefaultMedium(eventType) ==
    CASE eventType = "high_risk_connection" -> "critical"
      [] eventType = "connection_flooding" -> "high"
      [] eventType = "suspicious_port_access" -> "medium"
      [] eventType = "unusual_traffic_pattern" -> "low"
      [] OTHER -> "medium"

GetSeverity(eventType) ==
    CASE eventType = "high_risk_connection" -> "critical"
      [] eventType = "connection_flooding" -> "high"
      [] eventType = "suspicious_port_access" -> "medium"
      [] eventType = "unusual_traffic_pattern" -> "low"
      [] OTHER -> "low"

HighRiskActivity(conn) ==
    [type |-> "high_risk_connection", srcIP |-> conn.srcAddress,
     dstIP |-> conn.dstAddress, port |-> conn.dstPort, protocol |-> conn.protocol]

SuspiciousPortActivity(conn) ==
    [type |-> "suspicious_port_access", srcIP |-> conn.srcAddress,
     port |-> conn.dstPort, protocol |-> conn.protocol]

FloodingActivity(ip, count) ==
    [type |-> "connection_flooding", srcIP |-> ip, connectionCount |-> count]

\* The high-risk check taking every tier above low for high.
ConnActivitiesAboveLow(conn) ==
    (IF conn.risk # "low" THEN <<HighRiskActivity(conn)>> ELSE <<>>)
    \o (IF IsSuspiciousPort(conn.dstPort) THEN <<SuspiciousPortActivity(conn)>> ELSE <<>>)

\* The suspicious-port check made only for a connection that is not high-risk.
ConnActivitiesExclusive(conn) ==
    IF conn.risk = "high" THEN <<HighRiskActivity(conn)>>
    ELSE IF IsSuspiciousPort(conn.dstPort) THEN <<SuspiciousPortActivity(conn)>>
    ELSE <<>>

\* The body of connections.forEach for one connection: the two checks, in order.
ConnActivities(conn) ==
    (IF conn.risk = "high" THEN <<HighRiskActivity(conn)>> ELSE <<>>)
    \o (IF IsSuspiciousPort(conn.dstPort) THEN <<SuspiciousPortActivity(conn)>> ELSE <<>>)

\* The activities pushed by connections.forEach over connections[lo..hi], in
\* order.  The loop is split in halves to keep the evaluation depth logarithmic.
RECURSIVE PerConnection(_, _, _)
PerConnection(connections, lo, hi) ==
    IF lo > hi THEN <<>>
    ELSE IF lo = hi THEN ConnActivities(connections[lo])
    ELSE LET mid == (lo + hi) \div 2
         IN  CHOOSE r \in {l \o PerConnection(connections, mid + 1, hi) :
                              l \in {PerConnection(connections, lo, mid)}} : TRUE

\* ipCounts / portCounts: a Map keeps its keys in order of first insertion.
IpCount(connections, ip) ==
    Cardinality({i \in 1..Len(connections) : connections[i].srcAddress = ip})

PortCount(connections, port) ==
    Cardinality({i \in 1..Len(connections) : connections[i].dstPort = port})

FirstIndexOfIp(connections, ip) ==
    CHOOSE i \in 1..Len(connections) :
        /\ connections[i].srcAddress = ip
        /\ \A j \in 1..(i - 1) : connections[j].srcAddress # ip

FirstIndexOfPort(connections, port) ==
    CHOOSE i \in 1..Len(connections) :
        /\ connections[i].dstPort = port
        /\ \A j \in 1..(i - 1) : connections[j].dstPort # port

\* The keys of a Map as a sequence, ordered by the index of first insertion.
KeysInOrder(firsts) ==
    IF firsts = {} THEN <<>>
    ELSE LET last == CHOOSE i \in firsts : \A j \in firsts : j <= i
         IN  SelectSeq([i \in 1..last |-> i], LAMBDA i : i \in firsts)

IpKeys(connections) ==
    LET ips == {connections[i].srcAddress : i \in 1..Len(connections)}
        order == KeysInOrder({FirstIndexOfIp(connections, ip) : ip \in ips})
    IN  [k \in 1..Len(order) |-> connections[order[k]].srcAddress]

PortKeys(connections) ==
    LET ports == {connections[i].dstPort : i \in 1..Len(connections)}
        order == KeysInOrder({FirstIndexOfPort(connections, p) : p \in ports})
    IN  [k \in 1..Len(order) |-> connections[order[k]].dstPort]

\* The flooding check firing at the threshold itself.
FloodingIPsAtThreshold(connections) ==
    SelectSeq(IpKeys(connections),
              LAMBDA ip : IpCount(connections, ip) >= MaxConnectionsPerIP)

\* for (const [ip, count] of ipCounts.entries()) if (count > max) push flooding
FloodingIPs(connections) ==
    SelectSeq(IpKeys(connections),
              LAMBDA ip : IpCount(connections, ip) > MaxConnectionsPerIP)

FloodingActivities(connections) ==
    LET ips == FloodingIPs(connections)
    IN  [k \in 1..Len(ips) |-> FloodingActivity(ips[k], IpCount(connections, ips[k]))]

\* A sort by count descending that puts the later of two equal counts first.
SortDescTiesReversed(pairs) ==
    LET rank == Evaluated([i \in 1..Len(pairs) |->
                    1 + Cardinality({j \in 1..Len(pairs) :
                                        \/ pairs[j][2] > pairs[i][2]
                                        \/ pairs[j][2] = pairs[i][2] /\ j > i})])
    IN  [k \in 1..Len(pairs) |-> pairs[CHOOSE i \in 1..Len(pairs) : rank[i] = k]]

\* Array.prototype.sort is stable: (port, count) pairs by count descending,
\* equal counts in Map (first-encounter) order; then slice(0, 10).
StableSortDesc(pairs) ==
    LET rank == Evaluated([i \in 1..Len(pairs) |->
                    1 + Cardinality({j \in 1..Len(pairs) :
                                        \/ pairs[j][2] > pairs[i][2]
                                        \/ pairs[j][2] = pairs[i][2] /\ j < i})])
    IN  [k \in 1..Len(pairs) |-> pairs[CHOOSE i \in 1..Len(pairs) : rank[i] = k]]

TopPorts(connections) ==
    LET keys == PortKeys(connections)
        pairs == Evaluated([k \in 1..Len(keys) |->
                               <<keys[k], PortCount(connections, keys[k])>>])
        sorted == StableSortDesc(pairs)
    IN  SubSeq(sorted, 1, Min(TopPortsSlice, Len(sorted)))

PerformConnectionAnalysis(connections) ==
    [totalConnections |-> Len(connections),
     uniqueIPs |-> Cardinality({connections[i].srcAddress : i \in 1..Len(connections)}),
     topPorts |-> TopPorts(connections),
     suspiciousActivity |->
         PerConnection(connections, 1, Len(connections))
         \o FloodingActivities(connections),
     flagged |-> {FloodingIPs(connections)[k] : k \in 1..Len(FloodingIPs(connections))}]

-----------------------------------------------------------------------------
(* Event/alert store: SecurityMonitor.addSecurityEvent, createAlert, readers *)

\* The store part of a SecurityMonitor: the two logs and the ids drawn so far.
Store(evs, als, ec, ac) ==
    [events |-> evs, alerts |-> als, eventCount |-> ec, alertCount |-> ac]

\* Unshift without the slice: the log is never cut back.
UnshiftUncapped(log, x, cap) == <<x>> \o log

\* push instead of unshift: the new entry goes to the end of the log.
UnshiftAtEnd(log, x, cap) ==
    LET grown == log \o <<x>>
    IN  IF Len(grown) > cap THEN SubSeq(grown, 1, cap) ELSE grown

\* array.unshift(x), then array = array.slice(0, cap) if it grew beyond cap
Unshift(log, x, cap) ==
    LET grown == <<x>> \o log
    IN  IF Len(grown) > cap THEN SubSeq(grown, 1, cap) ELSE grown

\* createAlert taking the alert's own id for the reference to the event.
CreateAlertOwnId(st, event) ==
    LET alert == [id |-> st.alertCount + 1,
                  severity |-> event.severity,
                  type |-> event.type,
                  deviceId |-> event.deviceId,
                  eventId |-> st.alertCount + 1,
                  acknowledged |-> FALSE,
                  resolved |-> FALSE]
    IN  [st EXCEPT !.alerts = Unshift(st.alerts, alert, MaxAlerts),
                   !.alertCount = st.alertCount + 1]

CreateAlert(st, event) ==
    LET alert == [id |-> st.alertCount + 1,
                  severity |-> event.severity,
                  type |-> event.type,
                  deviceId |-> event.deviceId,
                  eventId |-> event.id,
                  acknowledged |-> FALSE,
                  resolved |-> FALSE]
    IN  [st EXCEPT !.alerts = Unshift(st.alerts, alert, MaxAlerts),
                   !.alertCount = st.alertCount + 1]

\* addSecurityEvent escalating every event, whatever its severity.
AddSecurityEventAlways(st, deviceId, activity) ==
    LET event == [id |-> st.eventCount + 1,
                  deviceId |-> deviceId,
                  type |-> activity.type,
                  severity |-> GetSeverity(activity.type),
                  details |-> activity,
                  acknowledged |-> FALSE]
        added == [st EXCEPT !.events = Unshift(st.events, event, MaxEvents),
                            !.eventCount = st.eventCount + 1]
    IN  CreateAlert(added, event)

\* addSecurityEvent numbering the events of each device separately.
AddSecurityEventIdPerDevice(st, deviceId, activity) ==
    LET event == [id |-> Cardinality({i \in 1..Len(st.events) :
                                         st.events[i].deviceId = deviceId}) + 1,
                  deviceId |-> deviceId,
                  type |-> activity.type,
                  severity |-> GetSeverity(activity.type),
                  details |-> activity,
                  acknowledged |-> FALSE]
        added == [st EXCEPT !.events = Unshift(st.events, event, MaxEvents),
                            !.eventCount = st.eventCount + 1]
    IN  IF event.severity = "critical" THEN CreateAlert(added, event) ELSE added

\* addSecurityEvent returning after the event is stored, the alert of a
\* critical event being left to a later turn.
AddSecurityEventAlertLater(st, deviceId, activity) ==
    LET event == [id |-> st.eventCount + 1,
                  deviceId |-> deviceId,
                  type |-> activity.type,
                  severity |-> GetSeverity(activity.type),
                  details |-> activity,
                  acknowledged |-> FALSE]
    IN  [st EXCEPT !.events = Unshift(st.events, event, MaxEvents),
                   !.eventCount = st.eventCount + 1]

AddSecurityEvent(st, deviceId, activity) ==
    LET event == [id |-> st.eventCount + 1,
                  deviceId |-> deviceId,
                  type |-> activity.type,
                  severity |-> GetSeverity(activity.type),
                  details |-> activity,
                  acknowledged |-> FALSE]
        added == [st EXCEPT !.events = Unshift(st.events, event, MaxEvents),
                            !.eventCount = st.eventCount + 1]
    IN  IF event.severity = "critical" THEN CreateAlert(added, event) ELSE added

\* A forEach that hands control back after the first activity: what the call
\* has recorded when another handler runs.
RecordActivitiesYielding(st, deviceId, activities, lo, hi) ==
    IF lo > hi THEN st ELSE AddSecurityEvent(st, deviceId, activities[lo])

\* suspiciousActivity.forEach(activity => this.addSecurityEvent(deviceId, activity))
\* over activities[lo..hi]; split in halves to keep the evaluation depth logarithmic.
RECURSIVE RecordActivities(_, _, _, _, _)
RecordActivities(st, deviceId, activities, lo, hi) ==
    IF lo > hi THEN st
    ELSE IF lo = hi THEN AddSecurityEvent(st, deviceId, activities[lo])
    ELSE LET mid == (lo + hi) \div 2
         IN  CHOOSE r \in {RecordActivities(s, deviceId, activities, mid + 1, hi) :
                              s \in {RecordActivities(st, deviceId, activities, lo, mid)}} : TRUE

\* A null entry of the connections array, and the value of a missing field.
Null == [null |-> TRUE]
Undefined == "undefined"

\* connections.forEach(conn => { const srcIP = conn.srcAddress; ... }): reading
\* a property of null throws a TypeError, which ends performConnectionAnalysis.
AnalysisThrows(connections) ==
    \E i \in 1..Len(connections) : connections[i] = Null

\* The methods the SecurityMonitor class defines.
MonitorMethods ==
    {"analyzeConnections", "performConnectionAnalysis", "isSuspiciousPort",
     "addSecurityEvent", "getSeverity", "getEventDescription", "createAlert",
     "getRecentEvents", "getActiveAlerts"}

\* An analysis that reports the flooding of an address only while the address
\* is not yet in this.suspiciousIPs.
AnalyzeConnectionsOncePerAddress(st, deviceId, connections) ==
    IF AnalysisThrows(connections)
    THEN [store |-> st, flagged |-> {}, analysis |-> <<>>, aborted |-> TRUE,
          threw |-> TRUE]
    ELSE LET full == PerformConnectionAnalysis(connections)
             analysis == [full EXCEPT !.suspiciousActivity =
                             SelectSeq(@, LAMBDA a :
                                 ~(a.type = "connection_flooding"
                                   /\ a.srcIP \in suspiciousIPs))]
             acts == analysis.suspiciousActivity
         IN  [store |-> RecordActivities(st, deviceId, acts, 1, Len(acts)),
              flagged |-> analysis.flagged,
              analysis |-> analysis,
              aborted |-> FALSE,
              threw |-> "checkForAlerts" \notin MonitorMethods]

\* analyzeConnections(deviceId, connections): the store after the call, the
\* addresses it marked, its local `analysis`, whether performConnectionAnalysis
\* ended with an exception (aborted), and whether the call threw.  Its last statement calls
\* this.checkForAlerts, which throws a TypeError when the class has no such method.
AnalyzeConnections(st, deviceId, connections) ==
    IF AnalysisThrows(connections)
    THEN [store |-> st, flagged |-> {}, analysis |-> <<>>, aborted |-> TRUE,
          threw |-> TRUE]
    ELSE LET analysis == PerformConnectionAnalysis(connections)
             acts == analysis.suspiciousActivity
         IN  [store |-> RecordActivities(st, deviceId, acts, 1, Len(acts)),
              flagged |-> analysis.flagged,
              analysis |-> analysis,
              aborted |-> FALSE,
              threw |-> "checkForAlerts" \notin MonitorMethods]

\* getRecentEvents returning the oldest events of the log.
GetRecentEventsOldest(evs, limit) ==
    SubSeq(evs, Len(evs) - Min(limit, Len(evs)) + 1, Len(evs))

GetRecentEvents(evs, limit) == SubSeq(evs, 1, Min(limit, Len(evs)))

\* getActiveAlerts without its filter.
GetActiveAlertsAll(als) == als

GetActiveAlerts(als) == SelectSeq(als, LAMBDA a : ~a.resolved)

\* array.findIndex(x => x.id = id), 1-based; 0 when no element matches
FindIndexById(seq, id) ==
    IF \E i \in 1..Len(seq) : seq[i].id = id
    THEN CHOOSE i \in 1..Len(seq) :
            seq[i].id = id /\ \A j \in 1..(i - 1) : seq[j].id # id
    ELSE 0

\* array.splice(index, 1), index 1-based
Splice(seq, index) ==
    [k \in 1..(Len(seq) - 1) |-> IF k < index THEN seq[k] ELSE seq[k + 1]]

-----------------------------------------------------------------------------
(* Inputs *)

Conn(src, dst, port, risk) ==
    [protocol |-> "tcp", srcAddress |-> src, dstAddress |-> dst,
     dstPort |-> port, risk |-> risk]

\* Three connections, one of them high-risk to a suspicious port.
Scenario3 ==
    <<Conn("192.168.1.10", "8.8.8.8", 80, "low"),
      Conn("10.0.0.5", "192.168.1.20", 3389, "high"),
      Conn("192.168.1.10", "1.1.1.1", 443, "medium")>>

\* One low-risk connection to a suspicious port: one medium event.
Telnet == <<Conn("192.168.1.10", "192.168.1.1", 23, "low")>>

\* A burst of MaxEvents high-risk connections from one address: one critical
\* event each, and one flooding event for the address.
Burst == [i \in 1..MaxEvents |-> Conn("94.140.14.7", "192.168.1.20", 443, "high")]

\* One high-risk connection followed by MaxEvents telnet connections from one
\* address: a critical event with its alert, then enough medium events to
\* push that event out of the event log.
Sweep ==
    <<Conn("10.0.0.5", "192.168.1.20", 443, "high")>>
    \o [i \in 1..MaxEvents |-> Conn("94.140.14.7", "192.168.1.1", 23, "low")]

\* The connections the enumerated snapshots are made of.
Alphabet ==
    {Conn("192.168.1.10", "8.8.8.8", 80, "low"),
     Conn("10.0.0.5", "192.168.1.20", 3389, "high"),
     Conn("192.168.1.10", "1.1.1.1", 443, "medium"),
     [Conn("203.0.113.9", "192.168.1.30", 53, "high") EXCEPT !.protocol = "udp"],
     Conn("10.0.0.5", "192.168.1.1", 23, "low")}

\* Every snapshot of at most MaxLen connections of Alphabet.
SmallSnapshots == UNION {[1..k -> Alphabet] : k \in 0..MaxLen}

\* n low-risk connections from one address, spread over `ports` ports.
Flood(ip, n, ports) ==
    [i \in 1..n |-> Conn(ip, "192.168.1.20", 8000 + (i % ports), "low")]

\* More ports than topPorts keeps: a connection to each of TopPortsSlice + 2
\* ports, then three more to the port that was met last.
ManyPorts ==
    Flood("203.0.113.9", TopPortsSlice + 2, TopPortsSlice + 2)
    \o Flood("198.51.100.7", 3, 1)

\* Snapshots around the flooding threshold: one source with exactly the
\* threshold, one above it, 150 to a port each; two flooding sources
\* interleaved; two sources at the threshold; and a flood between two
\* connections with activities.
LargeSnapshots ==
    {Flood("203.0.113.9", MaxConnectionsPerIP, 3),
     Flood("203.0.113.9", MaxConnectionsPerIP + 1, 3),
     Flood("203.0.113.9", MaxConnectionsPerIP + 50, MaxConnectionsPerIP + 50),
     Flood("203.0.113.9", 60, 3) \o Flood("198.51.100.7", MaxConnectionsPerIP + 1, 3)
        \o Flood("203.0.113.9", 41, 3),
     Flood("203.0.113.9", MaxConnectionsPerIP, 3)
        \o Flood("198.51.100.7", MaxConnectionsPerIP, 3),
     <<Conn("10.0.0.5", "192.168.1.20", 3389, "high")>>
        \o Flood("203.0.113.9", MaxConnectionsPerIP + 50, 3)
        \o <<Conn("10.0.0.5", "192.168.1.1", 23, "low")>>,
     ManyPorts}

\* Snapshots with a record that is not a connection: a null entry, or a
\* high-risk connection without srcAddress.
MalformedSnapshots ==
    {<<Null>>,
     <<Null, Conn("10.0.0.5", "192.168.1.20", 3389, "high")>>,
     <<Conn("10.0.0.5", "192.168.1.20", 3389, "high"), Null>>,
     <<Conn(Undefined, "192.168.1.20", 443, "high"),
       Conn("192.168.1.10", "8.8.8.8", 80, "low")>>}

AnalysisSnapshots == SmallSnapshots \cup LargeSnapshots \cup MalformedSnapshots

\* The snapshots a device returns to the monitoring loop.
PollSnapshots == {<<>>, Scenario3}

\* One address just above the flooding threshold, with no other activity.
Surge == Flood("203.0.113.9", MaxConnectionsPerIP + 1, 1)

\* The snapshots handed to analyzeConnections when the store is driven directly.
StoreSnapshots == {Scenario3, Telnet, Surge}

\* data.uptime of a system-resource answer
Uptimes == {"1d 2h"}

\* What a PUT asks of the connection: no connection detail in the body, or a
\* reconnect whose request succeeds or fails.
Reconnects == {"none", "ok", "fail"}

\* Ids no event, alert or device ever has (the counters start at 1).
UnknownIds == {0}

IdsAt(log, positions) == {log[i].id : i \in positions \cap (1..Len(log))}

\* Ids a client asks to acknowledge: the newest event, the first one outside
\* the default window of getRecentEvents, and an unknown id.
AckTargets == IdsAt(events, {1, DefaultLimit + 1}) \cup UnknownIds

\* Ids a client asks to dismiss: the newest and the oldest alert, and an unknown id.
DismissTargets == IdsAt(alerts, {1, Len(alerts)}) \cup UnknownIds

-----------------------------------------------------------------------------
(* Outputs of a step *)

Out(reply, published, logged) ==
    [reply |-> reply, published |-> published, logged |-> logged]

Quiet == Out(<<>>, <<>>, <<>>)

Reply(op, id, code) == <<[op |-> op, id |-> id, code |-> code]>>

\* broadcast(data) has returned: the message it was called with.
Broadcast(data) == <<data>>

\* client.readyState: 1 is WebSocket.OPEN, the next value WebSocket.CLOSING
OPEN == 1
CLOSING == OPEN + 1

\* The clients whose send() may throw during a broadcast; 0 stands for none.
SendFailures ==
    {0} \cup {clients[i].id : i \in {j \in 1..Len(clients) : clients[j].readyState = OPEN}}

\* wss.clients.forEach(client => { if (client.readyState === 1) client.send(...) }):
\* the clients are visited in insertion order; send() hands the message to the
\* client's socket and returns, or throws, which ends the forEach and leaves
\* broadcast with the exception.  A client's `sent` is the argument of the
\* last send() called on it, its `last` the last message its socket took.
Deliver(cl, data, failing) ==
    LET stop == IF \E i \in 1..Len(cl) : cl[i].id = failing /\ cl[i].readyState = OPEN
                THEN CHOOSE i \in 1..Len(cl) : cl[i].id = failing
                ELSE Len(cl) + 1
    IN  [clients |-> [i \in 1..Len(cl) |->
                        IF i < stop /\ cl[i].readyState = OPEN
                        THEN [cl[i] EXCEPT !.sent = <<data>>, !.last = <<data>>]
                        ELSE IF i = stop
                        THEN [cl[i] EXCEPT !.sent = <<data>>]
                        ELSE cl[i]],
         threw |-> stop <= Len(cl)]

\* broadcast(data), then the statements after it: `ok` is what the caller does
\* when broadcast returns, `failed` what it does when broadcast throws.
Announce(data, ok, failed) ==
    \E failing \in SendFailures :
        LET sent == Deliver(clients, data, failing)
        IN  /\ clients' = sent.clients
            /\ out' = IF sent.threw THEN failed ELSE ok

\* console.error(`Error monitoring device ${device.id}:`, error.message)
ErrorLog(deviceId, message) == <<[deviceId |-> deviceId, message |-> message]>>

\* No call of the analyzer is under observation.
NoCall ==
    [connections |-> <<>>, pc |-> "none", result |-> <<>>, aborted |-> FALSE,
     threw |-> FALSE]

\* The App component before it is mounted: no socket created, no reconnect
\* timer pending.
NoApp == [phase |-> "new", sockets |-> <<>>, timers |-> 0, status |-> "disconnected"]

-----------------------------------------------------------------------------
(* State after construction *)

Init ==
    /\ events = <<>>
    /\ alerts = <<>>
    /\ suspiciousIPs = {}
    /\ eventCount = 0
    /\ alertCount = 0
    /\ mikrotikDevices = {}
    /\ device = <<>>
    /\ tick = [t \in TickIds |-> [pc |-> "idle", cur |-> 0, status |-> "none"]]
    /\ polls = 0
    /\ clients = <<>>
    /\ call = NoCall
    /\ out = Quiet
    /\ app = NoApp

storeVars == <<events, alerts, eventCount, alertCount>>
registryVars == <<mikrotikDevices, device>>

-----------------------------------------------------------------------------
(* HTTP handlers on the store *)

\* The event log after POST /api/security/events/:id/acknowledge: the handler
\* looks the id up in getRecentEvents() and sets the flag on the object found.
AckIndex(evs, eventId) == FindIndexById(GetRecentEvents(evs, DefaultLimit), eventId)

\* The handler acknowledging the newest event when the id is not found.
AckEventsFallback(evs, eventId) ==
    LET idx == AckIndex(evs, eventId)
    IN  IF idx = 0
        THEN IF evs = <<>> THEN evs ELSE [evs EXCEPT ![1].acknowledged = TRUE]
        ELSE [evs EXCEPT ![idx].acknowledged = TRUE]

\* The handler flipping the flag instead of setting it.
AckEventsToggle(evs, eventId) ==
    LET idx == AckIndex(evs, eventId)
    IN  IF idx = 0 THEN evs ELSE [evs EXCEPT ![idx].acknowledged = ~@]

AckEvents(evs, eventId) ==
    LET idx == AckIndex(evs, eventId)
    IN  IF idx = 0 THEN evs ELSE [evs EXCEPT ![idx].acknowledged = TRUE]

AckCode(evs, eventId) == IF AckIndex(evs, eventId) = 0 THEN 404 ELSE 200

AcknowledgeEvent(eventId) ==
    /\ events' = AckEvents(events, eventId)
    /\ IF AckCode(events, eventId) = 404
       THEN /\ out' = Out(Reply("acknowledge", eventId, 404), <<>>, <<>>)
            /\ UNCHANGED clients
       ELSE LET data == [type |-> "event_acknowledged", eventId |-> eventId]
            IN  Announce(data,
                         Out(Reply("acknowledge", eventId, 200), Broadcast(data), <<>>),
                         Out(Reply("acknowledge", eventId, 500), <<>>, <<>>))
    /\ UNCHANGED <<app, call, alerts, suspiciousIPs, eventCount, alertCount,
                   mikrotikDevices, device, tick, polls>>

\* DELETE /api/security/alerts/:id: the handler takes getActiveAlerts(), a new
\* array made by filter, and splices the alert out of that array.
DismissIndex(als, alertId) == FindIndexById(GetActiveAlerts(als), alertId)

DismissLocal(als, alertId) == Splice(GetActiveAlerts(als), DismissIndex(als, alertId))

\* this.alerts after the handler: the splice changed the handler's array only.
DismissAlerts(als, alertId) == als

DismissCode(als, alertId) == IF DismissIndex(als, alertId) = 0 THEN 404 ELSE 200

DismissAlert(alertId) ==
    /\ alerts' = DismissAlerts(alerts, alertId)
    /\ IF DismissCode(alerts, alertId) = 404
       THEN /\ out' = Out(Reply("dismiss", alertId, 404), <<>>, <<>>)
            /\ UNCHANGED clients
       ELSE LET data == [type |-> "alert_dismissed", alertId |-> alertId]
            IN  Announce(data,
                         Out(Reply("dismiss", alertId, 200), Broadcast(data), <<>>),
                         Out(Reply("dismiss", alertId, 500), <<>>, <<>>))
    /\ UNCHANGED <<app, call, events, suspiciousIPs, eventCount, alertCount,
                   mikrotikDevices, device, tick, polls>>

-----------------------------------------------------------------------------
(* The store driven directly: one call of analyzeConnections *)

StoreNow == Store(events, alerts, eventCount, alertCount)

SetStore(st) ==
    /\ events' = st.events
    /\ alerts' = st.alerts
    /\ eventCount' = st.eventCount
    /\ alertCount' = st.alertCount

\* An analysis after which the set holds the addresses of its own snapshot only.
AnalyzeForgetting(deviceId, connections) ==
    /\ polls < MaxPolls
    /\ polls' = polls + 1
    /\ LET res == AnalyzeConnections(StoreNow, deviceId, connections)
       IN  /\ SetStore(res.store)
           /\ suspiciousIPs' = res.flagged
    /\ out' = Quiet
    /\ UNCHANGED <<app, call, mikrotikDevices, device, tick, clients>>

Analyze(deviceId, connections) ==
    /\ polls < MaxPolls
    /\ polls' = polls + 1
    /\ LET res == AnalyzeConnections(StoreNow, deviceId, connections)
       IN  /\ SetStore(res.store)
           /\ suspiciousIPs' = suspiciousIPs \cup res.flagged
    /\ out' = Quiet
    /\ UNCHANGED <<app, call, mikrotikDevices, device, tick, clients>>

EmptyStore == Store(<<>>, <<>>, 0, 0)

\* The monitor after construction, or after one analysis for the first
\* device: of Burst, which leaves both logs at their capacity, or of Sweep,
\* which leaves an alert whose event is no longer in the event log.
InitStore ==
    /\ \E res \in {[store |-> EmptyStore, flagged |-> {}, calls |-> 0],
                   [store |-> AnalyzeConnections(EmptyStore, 1, Burst).store,
                    flagged |-> AnalyzeConnections(EmptyStore, 1, Burst).flagged,
                    calls |-> 1],
                   [store |-> AnalyzeConnections(EmptyStore, 1, Sweep).store,
                    flagged |-> AnalyzeConnections(EmptyStore, 1, Sweep).flagged,
                    calls |-> 1]} :
          /\ events = res.store.events
          /\ alerts = res.store.alerts
          /\ eventCount = res.store.eventCount
          /\ alertCount = res.store.alertCount
          /\ suspiciousIPs = res.flagged
          /\ polls = res.calls
    /\ mikrotikDevices = {}
    /\ device = <<>>
    /\ tick = [t \in TickIds |-> [pc |-> "idle", cur |-> 0, status |-> "none"]]
    /\ clients = <<>>
    /\ call = NoCall
    /\ out = Quiet
    /\ app = NoApp

StoreNext ==
    \/ \E d \in DeviceIds, c \in StoreSnapshots : Analyze(d, c)
    \/ \E id \in AckTargets : AcknowledgeEvent(id)
    \/ \E id \in DismissTargets : DismissAlert(id)

SpecStore == InitStore /\ [][StoreNext]_vars

-----------------------------------------------------------------------------
(* The analyzer alone: one call of analyzeConnections on a new monitor, its  *)
(* argument drawn from AnalysisSnapshots                                      *)

InitAnalysis ==
    /\ events = <<>>
    /\ alerts = <<>>
    /\ suspiciousIPs = {}
    /\ eventCount = 0
    /\ alertCount = 0
    /\ mikrotikDevices = {}
    /\ device = <<>>
    /\ tick = [t \in TickIds |-> [pc |-> "idle", cur |-> 0, status |-> "none"]]
    /\ polls = 0
    /\ clients = <<>>
    /\ \E c \in AnalysisSnapshots :
          call = [NoCall EXCEPT !.connections = c, !.pc = "ready"]
    /\ out = Quiet
    /\ app = NoApp

\* analyzeConnections(deviceId, connections) runs: call.result is what
\* performConnectionAnalysis returned (nothing when it threw: call.aborted),
\* call.threw whether analyzeConnections ended with an exception.
AnalyzeCall(deviceId) ==
    /\ call.pc = "ready"
    /\ LET res == AnalyzeConnections(StoreNow, deviceId, call.connections)
       IN  /\ SetStore(res.store)
           /\ suspiciousIPs' = suspiciousIPs \cup res.flagged
           /\ call' = [call EXCEPT !.pc = "done",
                                    !.result = res.analysis,
                                    !.aborted = res.aborted,
                                    !.threw = res.threw]
    /\ out' = Quiet
    /\ UNCHANGED <<app, mikrotikDevices, device, tick, polls, clients>>

AnalysisNext == \E d \in DeviceIds : AnalyzeCall(d)

SpecAnalysis == InitAnalysis /\ [][AnalysisNext]_vars

\* The analyzer called again on the snapshot of the call under observation,
\* on the monitor as the calls before have left it.
AnalyzeAgain(deviceId) ==
    /\ call.pc \in {"done", "again"}
    /\ polls < MaxPolls
    /\ polls' = polls + 1
    /\ LET res == AnalyzeConnections(StoreNow, deviceId, call.connections)
       IN  /\ SetStore(res.store)
           /\ suspiciousIPs' = suspiciousIPs \cup res.flagged
           /\ call' = [call EXCEPT !.pc = "again",
                                    !.result = res.analysis,
                                    !.aborted = res.aborted,
                                    !.threw = res.threw]
    /\ out' = Quiet
    /\ UNCHANGED <<app, mikrotikDevices, device, tick, clients>>

\* The snapshots of the repeated call.
RepeatSnapshots == LargeSnapshots \cup MalformedSnapshots \cup StoreSnapshots \cup {<<>>}

InitRepeat ==
    /\ events = <<>>
    /\ alerts = <<>>
    /\ suspiciousIPs = {}
    /\ eventCount = 0
    /\ alertCount = 0
    /\ mikrotikDevices = {}
    /\ device = <<>>
    /\ tick = [t \in TickIds |-> [pc |-> "idle", cur |-> 0, status |-> "none"]]
    /\ polls = 0
    /\ clients = <<>>
    /\ \E c \in RepeatSnapshots :
          call = [NoCall EXCEPT !.connections = c, !.pc = "ready"]
    /\ out = Quiet
    /\ app = NoApp

\* One snapshot analysed, then analysed again, with analyses of a snapshot
\* that marks an address before, between and after.
RepeatNext ==
    \/ \E d \in DeviceIds : AnalyzeCall(d)
    \/ \E d \in DeviceIds : AnalyzeAgain(d)
    \/ Analyze(1, Surge)

SpecRepeat == InitRepeat /\ [][RepeatNext]_vars

-----------------------------------------------------------------------------
(* Device registry: POST /api/devices, DELETE /api/devices/:id *)

\* new MikroTikAPI(...), then connect(): on success the device is put in the
\* Map and announced; a missing field or a failed connect answers 400 and the
\* new object is dropped.
AddDevice(valid, connects) ==
    LET id == Cardinality(DOMAIN device) + 1
    IN  /\ id <= MaxDevices
        /\ IF valid /\ connects
           THEN /\ device' = [d \in DOMAIN device \cup {id} |->
                                IF d = id
                                THEN [id |-> id, host |-> "10.0.0.1",
                                      status |-> "connected",
                                      uptime |-> "null"]
                                ELSE device[d]]
                /\ mikrotikDevices' = mikrotikDevices \cup {id}
                /\ LET data == [type |-> "device_added", deviceId |-> id,
                                status |-> "connected"]
                   IN  Announce(data,
                                Out(Reply("add", id, 200), Broadcast(data), <<>>),
                                Out(Reply("add", id, 400), <<>>, <<>>))
           ELSE /\ UNCHANGED <<registryVars, clients>>
                /\ out' = Out(Reply("add", 0, 400), <<>>, <<>>)
        /\ UNCHANGED <<app, call, events, alerts, suspiciousIPs, eventCount, alertCount,
                       tick, polls>>

\* DELETE without its lookup: Map.delete of a missing key does nothing, and
\* the removal is announced.
RemoveDeviceUnchecked(deviceId) ==
    /\ mikrotikDevices' = mikrotikDevices \ {deviceId}
    /\ LET data == [type |-> "device_removed", deviceId |-> deviceId]
       IN  Announce(data,
                    Out(Reply("remove", deviceId, 200), Broadcast(data), <<>>),
                    Out(Reply("remove", deviceId, 500), <<>>, <<>>))
    /\ UNCHANGED <<app, call, events, alerts, suspiciousIPs, eventCount, alertCount,
                   device, tick, polls>>

RemoveDevice(deviceId) ==
    /\ IF deviceId \in mikrotikDevices
       THEN /\ mikrotikDevices' = mikrotikDevices \ {deviceId}
            /\ LET data == [type |-> "device_removed", deviceId |-> deviceId]
               IN  Announce(data,
                            Out(Reply("remove", deviceId, 200), Broadcast(data), <<>>),
                            Out(Reply("remove", deviceId, 500), <<>>, <<>>))
       ELSE /\ UNCHANGED <<mikrotikDevices, clients>>
            /\ out' = Out(Reply("remove", deviceId, 404), <<>>, <<>>)
    /\ UNCHANGED <<app, call, events, alerts, suspiciousIPs, eventCount, alertCount,
                   device, tick, polls>>

\* GET /api/devices/:id/status: 404 for an id that is not a key of the Map;
\* otherwise the handler awaits device.getSystemStatus(), which stores
\* data.uptime in the object, and answers with the data, or answers 500 when
\* the request fails.  The object is the one looked up before the await.
GetDeviceStatus(deviceId, ok, uptime) ==
    /\ IF deviceId \notin mikrotikDevices
       THEN /\ UNCHANGED device
            /\ out' = Out(Reply("status", deviceId, 404), <<>>, <<>>)
       ELSE IF ok
       THEN /\ device' = [device EXCEPT ![deviceId].uptime = uptime]
            /\ out' = Out(Reply("status", deviceId, 200), <<>>, <<>>)
       ELSE /\ UNCHANGED device
            /\ out' = Out(Reply("status", deviceId, 500), <<>>, <<>>)
    /\ UNCHANGED <<app, call, events, alerts, suspiciousIPs, eventCount, alertCount,
                   mikrotikDevices, tick, polls, clients>>

\* PUT replacing the stored object by a new MikroTikAPI, which draws a new id,
\* under the old key.
UpdateDeviceNewObject(deviceId, reconnect) ==
    /\ IF deviceId \notin mikrotikDevices
       THEN /\ UNCHANGED <<device, clients>>
            /\ out' = Out(Reply("update", deviceId, 404), <<>>, <<>>)
       ELSE LET status == CASE reconnect = "ok" -> "connected"
                            [] reconnect = "fail" -> "error"
                            [] OTHER -> "disconnected"
                data == [type |-> "device_updated", deviceId |-> deviceId,
                         status |-> status]
            IN  /\ device' = [device EXCEPT ![deviceId] =
                                 [id |-> Cardinality(DOMAIN device) + 1,
                                  host |-> device[deviceId].host,
                                  status |-> status, uptime |-> "null"]]
                /\ IF reconnect = "fail"
                   THEN /\ out' = Out(Reply("update", deviceId, 500), <<>>, <<>>)
                        /\ UNCHANGED clients
                   ELSE Announce(data,
                                 Out(Reply("update", deviceId, 200), Broadcast(data), <<>>),
                                 Out(Reply("update", deviceId, 500), <<>>, <<>>))
    /\ UNCHANGED <<app, call, events, alerts, suspiciousIPs, eventCount, alertCount,
                   mikrotikDevices, tick, polls>>

\* PUT /api/devices/:id.  A body without host, username and password changes
\* the name only; otherwise the handler first assigns the new connection
\* details (of which the model keeps the host; the body's host is 10.0.0.2),
\* then awaits device.connect(), which sets status 'connected' when its
\* request succeeds, and sets status 'error' and throws when it fails: the
\* handler then answers 500 without broadcasting.
UpdateDevice(deviceId, reconnect) ==
    /\ IF deviceId \notin mikrotikDevices
       THEN /\ UNCHANGED <<device, clients>>
            /\ out' = Out(Reply("update", deviceId, 404), <<>>, <<>>)
       ELSE LET status == CASE reconnect = "ok" -> "connected"
                            [] reconnect = "fail" -> "error"
                            [] OTHER -> device[deviceId].status
                data == [type |-> "device_updated", deviceId |-> deviceId,
                         status |-> status]
                host == IF reconnect = "none" THEN device[deviceId].host
                        ELSE "10.0.0.2"
            IN  /\ device' = [device EXCEPT ![deviceId].host = host,
                                            ![deviceId].status = status]
                /\ IF reconnect = "fail"
                   THEN /\ out' = Out(Reply("update", deviceId, 500), <<>>, <<>>)
                        /\ UNCHANGED clients
                   ELSE Announce(data,
                                 Out(Reply("update", deviceId, 200), Broadcast(data), <<>>),
                                 Out(Reply("update", deviceId, 500), <<>>, <<>>))
    /\ UNCHANGED <<app, call, events, alerts, suspiciousIPs, eventCount, alertCount,
                   mikrotikDevices, tick, polls>>

-----------------------------------------------------------------------------
(* Periodic monitoring: the cron callback                                   *)
(*   for (const device of mikrotikDevices.values()) {                       *)
(*     try { status = await getSystemStatus(); connections = await          *)
(*           getActiveConnections(); analyzeConnections; broadcast }        *)
(*     catch (error) { console.error(...) } }                               *)
(* A step runs the callback from one await to the next.                     *)

\* The Map iterator: the next key after `after` in insertion order, 0 at the end.
NextDevice(registry, after) ==
    IF \E d \in registry : d > after
    THEN CHOOSE d \in registry : d > after /\ \A e \in registry : e > after => d <= e
    ELSE 0

\* The loop moves on: it starts the poll of the next device (its status
\* request is now pending), or the callback returns.
Advance(t, registry, after) ==
    LET next == NextDevice(registry, after)
    IN  IF next = 0
        THEN /\ tick' = [tick EXCEPT ![t] = [pc |-> "done", cur |-> 0, status |-> "none"]]
             /\ UNCHANGED polls
        ELSE /\ polls < MaxPolls
             /\ polls' = polls + 1
             /\ tick' = [tick EXCEPT ![t] = [pc |-> "status", cur |-> next, status |-> "none"]]

\* node-cron calls the callback at every 30th second, whether or not an
\* earlier invocation has returned.
CronFire(t) ==
    /\ tick[t].pc = "idle"
    /\ \A u \in TickIds : u < t => tick[u].pc # "idle"
    /\ Advance(t, mikrotikDevices, 0)
    /\ out' = Quiet
    /\ UNCHANGED <<app, call, events, alerts, suspiciousIPs, eventCount, alertCount,
                   mikrotikDevices, device, clients>>

\* getSystemStatus() resolves: this.uptime = data.uptime, and the request for
\* the connections is sent.
StatusOk(t, uptime) ==
    /\ tick[t].pc = "status"
    /\ device' = [device EXCEPT ![tick[t].cur].uptime = uptime]
    /\ tick' = [tick EXCEPT ![t].pc = "conns", ![t].status = uptime]
    /\ out' = Quiet
    /\ UNCHANGED <<app, call, events, alerts, suspiciousIPs, eventCount, alertCount,
                   mikrotikDevices, polls, clients>>

\* The failure handled outside the loop: the callback logs it and returns.
StatusFailAborts(t) ==
    /\ tick[t].pc = "status"
    /\ out' = Out(<<>>, <<>>, ErrorLog(tick[t].cur, "Connection timeout"))
    /\ tick' = [tick EXCEPT ![t] = [pc |-> "done", cur |-> 0, status |-> "none"]]
    /\ UNCHANGED <<app, call, events, alerts, suspiciousIPs, eventCount, alertCount,
                   mikrotikDevices, device, polls, clients>>

\* makeRequest throws 'Connection timeout': the catch logs it and the loop goes on.
StatusFail(t) ==
    /\ tick[t].pc = "status"
    /\ out' = Out(<<>>, <<>>, ErrorLog(tick[t].cur, "Connection timeout"))
    /\ Advance(t, mikrotikDevices, tick[t].cur)
    /\ UNCHANGED <<app, call, events, alerts, suspiciousIPs, eventCount, alertCount,
                   mikrotikDevices, device, clients>>

ConnsFail(t) ==
    /\ tick[t].pc = "conns"
    /\ out' = Out(<<>>, <<>>, ErrorLog(tick[t].cur, "Connection timeout"))
    /\ Advance(t, mikrotikDevices, tick[t].cur)
    /\ UNCHANGED <<app, call, events, alerts, suspiciousIPs, eventCount, alertCount,
                   mikrotikDevices, device, clients>>

DeviceUpdate(deviceId, status, connections) ==
    [type |-> "device_update", deviceId |-> deviceId, status |-> status,
     connections |-> SubSeq(connections, 1, Min(BroadcastSlice, Len(connections)))]

\* getActiveConnections() resolves: the snapshot is analysed and, if the
\* analysis returns, the update is broadcast; if it throws, the catch logs it.
ConnsOk(t, connections) ==
    /\ tick[t].pc = "conns"
    /\ LET res == AnalyzeConnections(StoreNow, tick[t].cur, connections)
       IN  /\ SetStore(res.store)
           /\ suspiciousIPs' = suspiciousIPs \cup res.flagged
           /\ IF res.threw
              THEN /\ out' = Out(<<>>, <<>>,
                                 ErrorLog(tick[t].cur,
                                          "this.checkForAlerts is not a function"))
                   /\ UNCHANGED clients
              ELSE LET data == DeviceUpdate(tick[t].cur, tick[t].status, connections)
                   IN  Announce(data,
                                Out(<<>>, Broadcast(data), <<>>),
                                Out(<<>>, <<>>, ErrorLog(tick[t].cur, "send failed")))
    /\ Advance(t, mikrotikDevices, tick[t].cur)
    /\ UNCHANGED <<app, call, mikrotikDevices, device>>

-----------------------------------------------------------------------------

Next ==
    \/ \E valid \in BOOLEAN, connects \in BOOLEAN : AddDevice(valid, connects)
    \/ \E d \in DeviceIds \cup UnknownIds : RemoveDevice(d)
    \/ \E id \in AckTargets : AcknowledgeEvent(id)
    \/ \E id \in DismissTargets : DismissAlert(id)
    \/ \E t \in TickIds : CronFire(t)
    \/ \E t \in TickIds, u \in Uptimes : StatusOk(t, u)
    \/ \E t \in TickIds : StatusFail(t)
    \/ \E t \in TickIds, c \in PollSnapshots : ConnsOk(t, c)
    \/ \E t \in TickIds : ConnsFail(t)

Spec == Init /\ [][Next]_vars

\* The registry with its three writers and the monitoring loop, without the
\* handlers that only touch the event and alert logs.
DevicesNext ==
    \/ \E valid \in BOOLEAN, connects \in BOOLEAN : AddDevice(valid, connects)
    \/ \E d \in DeviceIds \cup UnknownIds : RemoveDevice(d)
    \/ \E d \in DeviceIds \cup UnknownIds, r \in Reconnects : UpdateDevice(d, r)
    \/ \E t \in TickIds : CronFire(t)
    \/ \E t \in TickIds, u \in Uptimes : StatusOk(t, u)
    \/ \E t \in TickIds : StatusFail(t)
    \/ \E t \in TickIds, c \in PollSnapshots : ConnsOk(t, c)
    \/ \E t \in TickIds : ConnsFail(t)

SpecDevices == Init /\ [][DevicesNext]_vars

\* The same handlers with routers that report no connections, which leaves
\* the logs empty: the registry and the device objects alone.
RegistryNext ==
    \/ \E valid \in BOOLEAN, connects \in BOOLEAN : AddDevice(valid, connects)
    \/ \E d \in DeviceIds \cup UnknownIds : RemoveDevice(d)
    \/ \E d \in DeviceIds \cup UnknownIds, r \in Reconnects : UpdateDevice(d, r)
    \/ \E t \in TickIds : CronFire(t)
    \/ \E t \in TickIds, u \in Uptimes : StatusOk(t, u)
    \/ \E t \in TickIds : StatusFail(t)
    \/ \E t \in TickIds : ConnsOk(t, <<>>)
    \/ \E t \in TickIds : ConnsFail(t)

SpecRegistry == Init /\ [][RegistryNext]_vars

-----------------------------------------------------------------------------
(* The WebSocket server: new WebSocketServer({ port: 3002 })                *)

\* A client connects: the server adds its socket, open, to wss.clients.
Attach ==
    /\ Len(clients) < MaxClients
    /\ LET id == CHOOSE c \in ClientIds :
                    /\ \A i \in 1..Len(clients) : clients[i].id # c
                    /\ \A e \in ClientIds :
                          (\A i \in 1..Len(clients) : clients[i].id # e) => c <= e
       IN  clients' = Append(clients, [id |-> id, readyState |-> OPEN, sent |-> <<>>,
                                    last |-> <<>>])
    /\ out' = Quiet
    /\ UNCHANGED <<app, call, events, alerts, suspiciousIPs, eventCount, alertCount,
                   mikrotikDevices, device, tick, polls>>

\* The closing handshake of a client starts: its socket is no longer open,
\* and it stays in wss.clients until the connection is gone.
BeginClose(c) ==
    /\ \E i \in 1..Len(clients) :
          /\ clients[i].id = c
          /\ clients[i].readyState = OPEN
          /\ clients' = [clients EXCEPT ![i].readyState = CLOSING]
    /\ out' = Quiet
    /\ UNCHANGED <<app, call, events, alerts, suspiciousIPs, eventCount, alertCount,
                   mikrotikDevices, device, tick, polls>>

\* The connection of a client is gone: the server deletes it from wss.clients.
Detach(c) ==
    /\ \E i \in 1..Len(clients) :
          /\ clients[i].id = c
          /\ clients' = Splice(clients, i)
    /\ out' = Quiet
    /\ UNCHANGED <<app, call, events, alerts, suspiciousIPs, eventCount, alertCount,
                   mikrotikDevices, device, tick, polls>>

\* The clients of the WebSocket server and the two handlers that announce a
\* device entering and leaving the registry.
HubNext ==
    \/ Attach
    \/ \E c \in ClientIds : BeginClose(c)
    \/ \E c \in ClientIds : Detach(c)
    \/ \E valid \in BOOLEAN, connects \in BOOLEAN : AddDevice(valid, connects)
    \/ \E d \in DeviceIds \cup UnknownIds : RemoveDevice(d)

SpecHub == Init /\ [][HubNext]_vars

\* The device routes alone: no polling, no WebSocket client.
RoutesNext ==
    \/ \E valid \in BOOLEAN, connects \in BOOLEAN : AddDevice(valid, connects)
    \/ \E d \in DeviceIds \cup UnknownIds : RemoveDevice(d)
    \/ \E d \in DeviceIds \cup UnknownIds, r \in Reconnects : UpdateDevice(d, r)
    \/ \E d \in DeviceIds \cup UnknownIds, ok \in BOOLEAN, u \in Uptimes :
          GetDeviceStatus(d, ok, u)

SpecRoutes == Init /\ [][RoutesNext]_vars

-----------------------------------------------------------------------------
(* The dashboard client: the WebSocket effect of the App component           *)
(*   useEffect(() => { const connectWebSocket = () => { ... };              *)
(*                     const ws = connectWebSocket();                       *)
(*                     return () => { if (ws) ws.close(); }; }, [])         *)
(* app.sockets holds the readyState of every WebSocket the effect has        *)
(* created, in creation order; app.timers counts the pending                 *)
(* setTimeout(connectWebSocket, 5000); app.status is connectionStatus.       *)

serverVars == <<events, alerts, suspiciousIPs, eventCount, alertCount,
                mikrotikDevices, device, tick, polls, clients, call, out>>

\* A state setter called by a handler: React drops it once the component is
\* unmounted.
SetConnectionStatus(status) == IF app.phase = "mounted" THEN status ELSE app.status

\* The component mounts and the effect runs: const ws = connectWebSocket(),
\* which creates the first WebSocket.
AppMount ==
    /\ app.phase = "new"
    /\ app' = [app EXCEPT !.phase = "mounted", !.sockets = <<"connecting">>]
    /\ UNCHANGED serverVars

\* ws.onopen
SocketOpen(i) ==
    /\ i \in 1..Len(app.sockets)
    /\ app.sockets[i] = "connecting"
    /\ app' = [app EXCEPT !.sockets[i] = "open",
                          !.status = SetConnectionStatus("connected")]
    /\ UNCHANGED serverVars

\* ws.onerror: the status is set, nothing else.
SocketError(i) ==
    /\ i \in 1..Len(app.sockets)
    /\ app.sockets[i] \in {"connecting", "open"}
    /\ app' = [app EXCEPT !.status = SetConnectionStatus("error")]
    /\ UNCHANGED serverVars

\* ws.onclose, whatever ended the connection (the server, the network, or a
\* close() of the client): setTimeout(connectWebSocket, 5000).
SocketClosed(i) ==
    /\ i \in 1..Len(app.sockets)
    /\ app.sockets[i] # "closed"
    /\ app' = [app EXCEPT !.sockets[i] = "closed",
                          !.status = SetConnectionStatus("disconnected"),
                          !.timers = @ + 1]
    /\ UNCHANGED serverVars

\* A reconnect timer fires: connectWebSocket() creates a WebSocket.
ReconnectTimer ==
    /\ app.timers > 0
    /\ Len(app.sockets) < MaxSockets
    /\ app' = [app EXCEPT !.timers = @ - 1,
                          !.sockets = Append(@, "connecting")]
    /\ UNCHANGED serverVars

\* The component unmounts and the cleanup of the effect runs: ws is the
\* WebSocket the first connectWebSocket() returned; close() starts the closing
\* handshake of a socket that is not closed yet.
AppUnmount ==
    /\ app.phase = "mounted"
    /\ app' = [app EXCEPT !.phase = "unmounted",
                          !.sockets[1] = IF @ = "closed" THEN @ ELSE "closing"]
    /\ UNCHANGED serverVars

AppNext ==
    \/ AppMount
    \/ \E i \in 1..MaxSockets : SocketOpen(i)
    \/ \E i \in 1..MaxSockets : SocketError(i)
    \/ \E i \in 1..MaxSockets : SocketClosed(i)
    \/ ReconnectTimer
    \/ AppUnmount

SpecApp == Init /\ [][AppNext]_vars

-----------------------------------------------------------------------------
(* The two readers of the monitor, called on an enumerated monitor          *)

\* The limits getRecentEvents is called with.
Limits ==
    {0, 1, 2, 3, DefaultLimit - 1, DefaultLimit + 1, MaxEvents, MaxEvents + 1}

\* Monitors left by one or two analyses.
AnalysedStores ==
    {EmptyStore,
     AnalyzeConnections(EmptyStore, 1, Telnet).store,
     AnalyzeConnections(EmptyStore, 1, Scenario3).store,
     AnalyzeConnections(AnalyzeConnections(EmptyStore, 1, Scenario3).store,
                        2, Scenario3).store,
     AnalyzeConnections(EmptyStore, 1, Burst).store,
     AnalyzeConnections(EmptyStore, 1, Sweep).store}

\* this.alerts with the resolved flag set on the alerts at the positions in
\* `at`.  No method of the class and no handler sets the flag: the array is a
\* public field of the monitor and these are the values of it on which
\* getActiveAlerts' filter has something to drop.
Resolve(st, at) ==
    [st EXCEPT !.alerts = Evaluated([k \in 1..Len(st.alerts) |->
                                       [st.alerts[k] EXCEPT !.resolved = k \in at]])]

QueryStores ==
    {Resolve(st, at) : st \in AnalysedStores,
                       at \in {{}, {1}, {k \in 1..MaxAlerts : k % 2 = 0},
                               1..MaxAlerts}}

InitQueries ==
    /\ \E st \in QueryStores :
          /\ events = st.events
          /\ alerts = st.alerts
          /\ eventCount = st.eventCount
          /\ alertCount = st.alertCount
    /\ suspiciousIPs = {}
    /\ mikrotikDevices = {}
    /\ device = <<>>
    /\ tick = [t \in TickIds |-> [pc |-> "idle", cur |-> 0, status |-> "none"]]
    /\ polls = 0
    /\ clients = <<>>
    /\ call = NoCall
    /\ out = Quiet
    /\ app = NoApp

\* What a call of a reader returned: the method, its arguments, its value.
Returned(method, args, value) ==
    <<[op |-> method, args |-> args, body |-> value]>>

\* securityMonitor.getRecentEvents(...args): with no argument the parameter
\* takes its default.
RecentEvents(args) ==
    /\ LET limit == IF args = <<>> THEN DefaultLimit ELSE args[1]
       IN  out' = Out(Returned("getRecentEvents", args,
                               GetRecentEvents(events, limit)), <<>>, <<>>)
    /\ UNCHANGED <<app, storeVars, suspiciousIPs, registryVars, tick, polls, clients,
                   call>>

\* securityMonitor.getActiveAlerts()
ActiveAlerts ==
    /\ out' = Out(Returned("getActiveAlerts", <<>>, GetActiveAlerts(alerts)),
                  <<>>, <<>>)
    /\ UNCHANGED <<app, storeVars, suspiciousIPs, registryVars, tick, polls, clients,
                   call>>

QueriesNext ==
    \/ \E args \in {<<>>} \cup {<<l>> : l \in Limits} : RecentEvents(args)
    \/ ActiveAlerts

SpecQueries == InitQueries /\ [][QueriesNext]_vars

-----------------------------------------------------------------------------
(* Properties *)

Range(seq) == {seq[i] : i \in 1..Len(seq)}

Ids(log) == {log[i].id : i \in 1..Len(log)}

\* One activity of every kind, and one of a kind the severity table does not know.
SampleActivities ==
    {HighRiskActivity(Scenario3[2]),
     SuspiciousPortActivity(Scenario3[2]),
     FloodingActivity("203.0.113.9", 150),
     [type |-> "unusual_traffic_pattern"],
     [type |-> "port_scan"]}

\* C1: in every reachable state of the store the event log holds at most 1000
\* events and the alert log at most 100 alerts.
C1_LogsBounded ==
    /\ Len(events) <= MaxEvents
    /\ Len(alerts) <= MaxAlerts

\* Both logs are full and have dropped entries, the last time for the events
\* of an analysis recorded after the burst.
C1_Witness ==
    /\ Len(events) = MaxEvents /\ eventCount > MaxEvents
    /\ Len(alerts) = MaxAlerts /\ alertCount > MaxAlerts
    /\ events[1].type = "suspicious_port_access"

\* The events a step created: the first eventCount' - eventCount entries of events'.
NewCritical ==
    {i \in 1..(eventCount' - eventCount) : events'[i].severity = "critical"}

\* C2: recording an activity creates exactly one alert, referring to the new
\* event, when the event's severity is critical, and none otherwise; and in
\* every step of the system the alerts created are exactly one per critical
\* event created, so a step that records nothing creates no alert.
C2_AlertIffCritical ==
    /\ [](\A d \in DeviceIds, a \in SampleActivities :
            LET after == AddSecurityEvent(StoreNow, d, a)
            IN  IF after.events[1].severity = "critical"
                THEN /\ after.alertCount = alertCount + 1
                     /\ after.alerts[1].id = alertCount + 1
                     /\ after.alerts[1].eventId = after.events[1].id
                     /\ Tail(after.alerts)
                          = SubSeq(alerts, 1, Min(Len(alerts), MaxAlerts - 1))
                ELSE /\ a.type # "high_risk_connection"
                     /\ after.alertCount = alertCount
                     /\ after.alerts = alerts)
    /\ [][/\ alertCount' - alertCount = Cardinality(NewCritical)
          /\ \A k \in 1..(alertCount' - alertCount) :
                /\ alerts'[k].id > alertCount
                /\ \E i \in NewCritical : alerts'[k].eventId = events'[i].id
          /\ \A k \in (alertCount' - alertCount + 1)..Len(alerts') :
                alerts'[k] = alerts[k - (alertCount' - alertCount)]]_vars

\* A critical event with its alert, next to a medium event that has none.
C2_Witness ==
    /\ \E i \in 1..Len(events) :
          /\ events[i].severity = "critical"
          /\ Cardinality({k \in 1..Len(alerts) : alerts[k].eventId = events[i].id}) = 1
    /\ \E i \in 1..Len(events) :
          /\ events[i].severity = "medium"
          /\ \A k \in 1..Len(alerts) : alerts[k].eventId # events[i].id

\* C3: a dismiss of an alert that is in the log answers success and the alert
\* is in no later activeAlerts result; a dismiss of an id that is not in the
\* log answers not-found and leaves the alert log unchanged.
C3_DismissRemoves ==
    [][\A r \in Range(out'.reply) :
          r.op = "dismiss" =>
             IF r.id \in Ids(alerts)
             THEN r.code = 200 /\ r.id \notin Ids(GetActiveAlerts(alerts'))
             ELSE r.code = 404 /\ alerts' = alerts]_vars

\* Ids probed in the event log: the newest, both sides of the default window,
\* the oldest, and an unknown one.
ProbeIds == IdsAt(events, {1, DefaultLimit, DefaultLimit + 1, Len(events)}) \cup UnknownIds

\* C4: acknowledging an event a second time leaves the event log as the first
\* acknowledgment left it; acknowledging an id no event has answers not-found
\* and changes neither log.
C4_AckIdempotent ==
    /\ [](\A id \in ProbeIds :
            /\ AckEvents(AckEvents(events, id), id) = AckEvents(events, id)
            /\ AckCode(AckEvents(events, id), id) = AckCode(events, id)
            /\ id \notin Ids(events) =>
                  AckCode(events, id) = 404 /\ AckEvents(events, id) = events)
    /\ [][\A r \in Range(out'.reply) :
             r.op = "acknowledge" =>
                /\ alerts' = alerts
                /\ r.id \notin Ids(events) => r.code = 404 /\ events' = events
                /\ (\E i \in 1..Len(events) :
                       events[i].id = r.id /\ events[i].acknowledged) =>
                      events' = events]_vars

\* The last request acknowledged an event, and the log holds it acknowledged.
C4_Witness ==
    \E r \in Range(out.reply) :
        /\ r.op = "acknowledge" /\ r.code = 200
        /\ \E i \in 1..Len(events) : events[i].id = r.id /\ events[i].acknowledged

\* C5: an acknowledge answers not-found only when no event of the log has the
\* id; for an event held anywhere in the log it sets the flag and answers success.
C5_AckFindsAnyEvent ==
    [][\A r \in Range(out'.reply) :
          r.op = "acknowledge" =>
             IF r.id \in Ids(events)
             THEN /\ r.code = 200
                  /\ \E i \in 1..Len(events') :
                        events'[i].id = r.id /\ events'[i].acknowledged
             ELSE r.code = 404]_vars

\* C6: an event enters the log unacknowledged; an event that stays in the log
\* keeps every field, except that its acknowledged flag may turn from false to
\* true, and never back.
C6_AckMonotone ==
    [][LET created == eventCount' - eventCount
       IN  \A i \in 1..Len(events') :
              IF i <= created
              THEN events'[i].acknowledged = FALSE
              ELSE /\ i - created <= Len(events)
                   /\ events'[i].id = events[i - created].id
                   /\ events[i - created].acknowledged => events'[i].acknowledged
                   /\ events'[i] = [events[i - created] EXCEPT
                                       !.acknowledged = events'[i].acknowledged]]_vars

\* An acknowledged event that is no longer the newest, in a log that has
\* already dropped entries.
C6_Witness ==
    /\ eventCount > MaxEvents
    /\ \E i \in 2..Len(events) : events[i].acknowledged

\* C7: when both fetches of a device poll succeed, the step that records the
\* snapshot's activities also publishes a device_update for the device, with
\* the fetched status and the first 10 connections.
C7_UpdatePublished ==
    [][\A t \in TickIds, c \in PollSnapshots :
          ConnsOk(t, c) =>
             out'.published = Broadcast(DeviceUpdate(tick[t].cur, tick[t].status, c))]_vars

InFlight(t) == tick[t].pc \in {"status", "conns"}

\* C8: no two invocations of the cron callback have a request pending for the
\* same device.
C8_OnePollPerDevice ==
    \A t \in TickIds, u \in TickIds :
        (t # u /\ InFlight(t) /\ InFlight(u)) => tick[t].cur # tick[u].cur

\* C9: when a fetch of a device fails, the device's status is error at the end
\* of that poll.
C9_FailureMarksError ==
    [][\A t \in TickIds :
          (StatusFail(t) \/ ConnsFail(t)) => device'[tick[t].cur].status = "error"]_vars

\* C10: the poll of a device whose status or connection fetch fails records no
\* event and no alert, and the tick goes on: if a device of the registry is
\* still to be polled in this tick, its poll is started.
C10_FailureIsolated ==
    [][\A t \in TickIds :
          /\ (StatusFail(t) \/ ConnsFail(t)) =>
                /\ UNCHANGED <<events, alerts, eventCount, alertCount>>
                /\ \A e \in mikrotikDevices :
                      e > tick[t].cur =>
                         /\ tick'[t].pc = "status"
                         /\ tick'[t].cur \in mikrotikDevices
                         /\ tick[t].cur < tick'[t].cur /\ tick'[t].cur <= e
          /\ (\E u \in Uptimes : StatusOk(t, u)) =>
                UNCHANGED <<events, alerts, eventCount, alertCount>>]_vars

\* A fetch of one device has just failed, nothing is recorded, and the same
\* tick is polling the next device of the registry.
C10_Witness ==
    \E t \in TickIds, l \in Range(out.logged) :
        /\ l.message = "Connection timeout"
        /\ tick[t].pc = "status"
        /\ l.deviceId \in mikrotikDevices
        /\ l.deviceId < tick[t].cur
        /\ \A u \in TickIds \ {t} : tick[u].pc = "idle"
        /\ events = <<>> /\ alerts = <<>>

\* C11: after a device poll in which both fetches succeed, the device's status
\* is connected and its uptime is the one the poll fetched.
C11_PollRefreshesDevice ==
    [][\A t \in TickIds, c \in PollSnapshots :
          ConnsOk(t, c) =>
             /\ device'[tick[t].cur].status = "connected"
             /\ device'[tick[t].cur].uptime = tick[t].status]_vars

\* Tick t has a request pending for device d.
Pending(t, d) == InFlight(t) /\ tick[t].cur = d

\* C12: the polls of a tick do not wait for one another: the step that fires
\* the tick leaves a request pending for every device of the registry, and no
\* poll is started by the step that completes the poll of another device.
C12_PollsConcurrent ==
    [][\A t \in TickIds :
          /\ CronFire(t) =>
                \A d \in mikrotikDevices :
                   tick'[t].pc \in {"status", "conns"} /\ tick'[t].cur = d
          /\ (tick'[t].pc = "status" /\ tick'[t].cur # tick[t].cur) =>
                tick[t].pc = "idle"]_vars

\* The message a registry handler announces for the device of its answer.
Announced(r) ==
    IF r.op = "add"
    THEN [type |-> "device_added", deviceId |-> r.id, status |-> "connected"]
    ELSE [type |-> "device_removed", deviceId |-> r.id]

\* C13: when a handler publishes a change of the registry and the delivery to
\* one client fails, every other open client is still handed the message, and
\* the handler answers success.
C13_DeliveryIsolated ==
    [][\A r \in Range(out'.reply) :
          (r.op \in {"add", "remove"} /\ mikrotikDevices' # mikrotikDevices) =>
             /\ r.code = 200
             /\ Cardinality({i \in 1..Len(clients) :
                                /\ clients[i].readyState = OPEN
                                /\ clients'[i].last # <<Announced(r)>>}) <= 1]_vars

\* A snapshot whose records are all connections with a source address.
WellFormed(connections) ==
    \A i \in 1..Len(connections) :
        connections[i] # Null /\ connections[i].srcAddress # Undefined

\* The call under observation is over and its argument was well-formed.
Analysed == call.pc = "done" /\ WellFormed(call.connections)

OfType(acts, type) == SelectSeq(acts, LAMBDA a : a.type = type)

\* C14: the activities of an analysis hold exactly one high_risk_connection
\* for each connection of tier high, in the order of the connections and with
\* the connection's source, destination, port and protocol, and none for a
\* connection of another tier.
C14_OneHighRiskPerHighTier ==
    Analysed =>
        LET acts == OfType(call.result.suspiciousActivity, "high_risk_connection")
            high == SelectSeq(call.connections, LAMBDA c : c.risk = "high")
        IN  /\ Len(acts) = Len(high)
            /\ \A k \in 1..Len(high) :
                  acts[k] = [type |-> "high_risk_connection",
                             srcIP |-> high[k].srcAddress,
                             dstIP |-> high[k].dstAddress,
                             port |-> high[k].dstPort,
                             protocol |-> high[k].protocol]

\* An analysed snapshot with two high-tier connections of different protocols
\* and a medium-tier one, and two high_risk_connection activities.
C14_Witness ==
    /\ Analysed
    /\ \E i, j, k \in 1..Len(call.connections) :
          /\ call.connections[i].risk = "high" /\ call.connections[i].protocol = "tcp"
          /\ call.connections[j].risk = "high" /\ call.connections[j].protocol = "udp"
          /\ call.connections[k].risk = "medium"
    /\ Len(OfType(call.result.suspiciousActivity, "high_risk_connection")) = 2

\* The connections of a snapshot that come from one address.
From(connections, ip) == SelectSeq(connections, LAMBDA c : c.srcAddress = ip)

\* C15: for every source address of an analysed snapshot, the activities hold
\* exactly one connection_flooding with the address's exact tally when it is
\* the source of more than 100 connections, and none when it is the source of
\* 100 or fewer; every flooding activity is recorded as one event of severity
\* high that no alert refers to.
C15_FloodingPerSource ==
    Analysed =>
        LET floods == OfType(call.result.suspiciousActivity, "connection_flooding")
            recorded == OfType(events, "connection_flooding")
            sources == {call.connections[i].srcAddress : i \in 1..Len(call.connections)}
        IN  /\ \A k \in 1..Len(floods) : floods[k].srcIP \in sources
            /\ \A ip \in sources :
                  LET tally == Len(From(call.connections, ip))
                      mine == SelectSeq(floods, LAMBDA a : a.srcIP = ip)
                  IN  IF tally > 100
                      THEN mine = <<[type |-> "connection_flooding", srcIP |-> ip,
                                     connectionCount |-> tally]>>
                      ELSE mine = <<>>
            /\ Len(recorded) = Len(floods)
            /\ \A k \in 1..Len(recorded) :
                  /\ recorded[k].severity = "high"
                  /\ recorded[k].details \in Range(floods)
                  /\ \A a \in 1..Len(alerts) : alerts[a].eventId # recorded[k].id
            /\ Len(events) = Len(call.result.suspiciousActivity)

\* 150 connections from one address, each to another port, have been
\* analysed: one event, of severity high and with the tally 150, and no alert.
C15_Witness ==
    /\ Analysed
    /\ Len(call.connections) = 150
    /\ \A i, j \in 1..Len(call.connections) :
          /\ call.connections[i].srcAddress = call.connections[j].srcAddress
          /\ i # j => call.connections[i].dstPort # call.connections[j].dstPort
    /\ Len(events) = 1
    /\ events[1].severity = "high"
    /\ events[1].details.connectionCount = 150
    /\ alerts = <<>>

\* The number of activities the connections before the i-th give rise to.
ActivitiesBefore(connections, i) ==
    Cardinality({j \in 1..(i - 1) : connections[j].risk = "high"})
    + Cardinality({j \in 1..(i - 1) : connections[j].dstPort \in SuspiciousPorts})

\* C16: a connection of tier high to a suspicious port gives two consecutive
\* activities, high_risk_connection then suspicious_port_access, both with its
\* source address; they are recorded as a critical event, which exactly one
\* alert refers to, and a medium event, which no alert refers to.  A snapshot
\* whose only connection with an activity is such a one gives exactly two
\* events and one alert.
C16_BothChecksFire ==
    Analysed =>
        LET conns == call.connections
            acts == call.result.suspiciousActivity
            both == {i \in 1..Len(conns) :
                        conns[i].risk = "high" /\ conns[i].dstPort \in SuspiciousPorts}
        IN  /\ Len(events) = Len(acts)
            /\ \A i \in both :
                  LET p == ActivitiesBefore(conns, i) + 1
                      critical == events[Len(acts) - p + 1]
                      medium == events[Len(acts) - p]
                  IN  /\ acts[p].type = "high_risk_connection"
                      /\ acts[p + 1].type = "suspicious_port_access"
                      /\ acts[p].srcIP = conns[i].srcAddress
                      /\ acts[p + 1].srcIP = conns[i].srcAddress
                      /\ acts[p].port = conns[i].dstPort
                      /\ acts[p + 1].port = conns[i].dstPort
                      /\ critical.details = acts[p] /\ critical.severity = "critical"
                      /\ medium.details = acts[p + 1] /\ medium.severity = "medium"
                      /\ Cardinality({a \in 1..Len(alerts) :
                                         alerts[a].eventId = critical.id}) = 1
                      /\ \A a \in 1..Len(alerts) : alerts[a].eventId # medium.id
            /\ (/\ Cardinality(both) = 1
                /\ \A i \in (1..Len(conns)) \ both :
                      conns[i].risk # "high" /\ conns[i].dstPort \notin SuspiciousPorts
                /\ \A i \in 1..Len(conns) :
                      Len(From(conns, conns[i].srcAddress)) <= 100)
               => Len(events) = 2 /\ Len(alerts) = 1

\* The three connections of the scenario have been analysed: the events of
\* 10.0.0.5 are a critical one with its alert and, newer, a medium one.
C16_Witness ==
    /\ Analysed
    /\ call.connections = Scenario3
    /\ Len(events) = 2 /\ Len(alerts) = 1
    /\ events[2].type = "high_risk_connection" /\ events[2].severity = "critical"
    /\ events[1].type = "suspicious_port_access" /\ events[1].severity = "medium"
    /\ events[1].details.srcIP = "10.0.0.5" /\ events[2].details.srcIP = "10.0.0.5"
    /\ alerts[1].eventId = events[2].id

\* C17: the analysis of a well-formed snapshot ends without an exception, in
\* performConnectionAnalysis and in analyzeConnections; for the empty snapshot
\* it returns no activity, zero totals and no top port, and records nothing.
C17_NoException ==
    Analysed =>
        /\ ~call.aborted
        /\ ~call.threw
        /\ call.connections = <<>> =>
              /\ call.result.suspiciousActivity = <<>>
              /\ call.result.totalConnections = 0
              /\ call.result.uniqueIPs = 0
              /\ call.result.topPorts = <<>>
              /\ events = <<>> /\ alerts = <<>>

\* The records of a snapshot that are connections with a source address.
Valid(connections) ==
    SelectSeq(connections, LAMBDA c : c # Null /\ c.srcAddress # Undefined)

\* C18: a record that is null or has no source address does not end the
\* analysis and is left out of it: the number of sources, the top ports and
\* the flooding activities are those of the snapshot without such records,
\* and every activity of the other records is returned.
C18_MalformedExcluded ==
    call.pc = "done" =>
        /\ ~call.aborted
        /\ LET clean == PerformConnectionAnalysis(Valid(call.connections))
           IN  /\ call.result.uniqueIPs = clean.uniqueIPs
               /\ call.result.topPorts = clean.topPorts
               /\ OfType(call.result.suspiciousActivity, "connection_flooding")
                     = OfType(clean.suspiciousActivity, "connection_flooding")
               /\ Range(clean.suspiciousActivity)
                     \subseteq Range(call.result.suspiciousActivity)

\* C19: the events of one analysis are recorded in the order of its
\* activities, the per-connection activities before the flooding ones: the
\* event of an earlier activity has the smaller id and sits further from the
\* head of the event log.
C19_EmissionOrder ==
    Analysed =>
        LET acts == call.result.suspiciousActivity
            At(i) == Len(acts) - i + 1
        IN  /\ Len(events) = Len(acts)
            /\ \A i \in 1..Len(acts) : events[At(i)].details = acts[i]
            /\ \A i, j \in 1..Len(acts) :
                  i < j => At(i) > At(j) /\ events[At(i)].id < events[At(j)].id
            /\ \A i, j \in 1..Len(acts) :
                  (/\ acts[i].type = "connection_flooding"
                   /\ acts[j].type # "connection_flooding") => j < i

\* A snapshot with a high-risk connection first, a flood, and a telnet
\* connection last has been analysed: the flooding event is at the head, the
\* telnet event next, the high-risk event last.
C19_Witness ==
    /\ Analysed
    /\ Len(events) = 4
    /\ events[1].type = "connection_flooding"
    /\ events[2].type = "suspicious_port_access" /\ events[2].details.port = 23
    /\ events[3].type = "suspicious_port_access" /\ events[3].details.port = 3389
    /\ events[4].type = "high_risk_connection"
    /\ call.connections[1].risk = "high"
    /\ call.connections[Len(call.connections)].dstPort = 23

\* The k most recently created entries of a log whose ids were drawn from a
\* counter now at `count`, as ids, most recent first.
MostRecentIds(count, k) == [i \in 1..k |-> count - i + 1]

IdsOf(log) == [i \in 1..Len(log) |-> log[i].id]

\* C20: the event log is the min(n, 1000) most recently created events, most
\* recent first; the alert log is most recent first, a step that creates
\* alerts puts them at the head and drops the oldest beyond 100, and a
\* successful dismiss takes the dismissed alert, and nothing else, out of it.
C20_OldestFirstEviction ==
    /\ [](IdsOf(events) = MostRecentIds(eventCount, Min(eventCount, 1000)))
    /\ [][LET created == alertCount' - alertCount
              dismissed == {r.id : r \in {q \in Range(out'.reply) :
                                             q.op = "dismiss" /\ q.code = 200}}
              kept == SelectSeq(alerts, LAMBDA a : a.id \notin dismissed)
              grown == MostRecentIds(alertCount', created) \o IdsOf(kept)
          IN  IdsOf(alerts') = SubSeq(grown, 1, Min(Len(grown), 100))]_vars

\* C21: an alert is created for the event just put at the head of the event
\* log and carries its id, severity, type and device; every alert refers to
\* an id that was drawn for an event, and agrees with that event as long as
\* the log holds it; a step changes or removes no alert except the oldest
\* ones beyond 100, whether or not the events referred to were dropped.
C21_AlertRefersToEvent ==
    /\ [](\A d \in DeviceIds, a \in SampleActivities :
            LET after == AddSecurityEvent(StoreNow, d, a)
            IN  after.alertCount > alertCount =>
                   /\ after.alerts[1].eventId = after.events[1].id
                   /\ after.alerts[1].severity = after.events[1].severity
                   /\ after.alerts[1].type = after.events[1].type
                   /\ after.alerts[1].deviceId = d)
    /\ [](\A k \in 1..Len(alerts) :
            /\ alerts[k].eventId \in 1..eventCount
            /\ \A i \in 1..Len(events) :
                  events[i].id = alerts[k].eventId =>
                     /\ alerts[k].severity = events[i].severity
                     /\ alerts[k].type = events[i].type
                     /\ alerts[k].deviceId = events[i].deviceId)
    /\ [][LET created == alertCount' - alertCount
          IN  /\ Len(alerts') = Min(Len(alerts) + created, 100)
              /\ \A k \in (created + 1)..Len(alerts') :
                    alerts'[k] = alerts[k - created]]_vars

\* The log holds an alert whose event has been dropped from the event log,
\* after a step that created events.
C21_Witness ==
    /\ \E k \in 1..Len(alerts) : alerts[k].eventId \notin Ids(events)
    /\ events # <<>>
    /\ events[1].type = "suspicious_port_access"
    /\ events[1].details.srcIP = "192.168.1.10"

\* C22: in every state another handler can run in (between two steps: a
\* handler runs from one await to the next without interruption, and
\* addSecurityEvent awaits nothing), neither log exceeds its capacity and every
\* critical event in the event log has its alert in the alert log, unless the
\* alert log is full of alerts for newer events.
C22_RecordAtomic ==
    /\ Len(events) <= MaxEvents
    /\ Len(alerts) <= MaxAlerts
    /\ \A i \in 1..Len(events) :
          events[i].severity = "critical" =>
             \/ \E k \in 1..Len(alerts) : alerts[k].eventId = events[i].id
             \/ /\ Len(alerts) = MaxAlerts
                /\ alerts[MaxAlerts].eventId > events[i].id

\* The second device's analysis has put a critical event and its alert at the
\* head of two full logs that hold the first device's events.
C22_Witness ==
    /\ Len(events) = MaxEvents
    /\ Len(alerts) = MaxAlerts
    /\ \E i \in 1..Len(events) :
          /\ events[i].severity = "critical"
          /\ events[i].deviceId = 2
          /\ alerts[1].eventId = events[i].id
    /\ \E j \in 1..Len(events) : events[j].deviceId = 1

\* C23: no two entries of the event log have the same id, and no two entries
\* of the alert log have the same id.
C23_DistinctIds ==
    /\ \A i, j \in 1..Len(events) : i # j => events[i].id # events[j].id
    /\ \A i, j \in 1..Len(alerts) : i # j => alerts[i].id # alerts[j].id

\* Two polls have recorded the same activity, for two devices or for one
\* device in two invocations, and each has raised an alert.
C23_Witness ==
    /\ \E i, j \in 1..Len(events) :
          i # j /\ events[i].details = events[j].details
    /\ Len(alerts) >= 2
    /\ polls = 2

\* C24: every key of the registry maps to the device object that was created
\* with that id, so no two entries have the same id, and the id of a device
\* object, registered or removed, is the one its constructor drew.
C24_OneDevicePerIdentity ==
    /\ mikrotikDevices \subseteq DOMAIN device
    /\ \A k \in DOMAIN device : device[k].id = k
    /\ \A a, b \in mikrotikDevices : device[a].id = device[b].id => a = b

\* Two devices are registered, one of them updated with a reconnect and
\* polled, after an update was answered.
C24_Witness ==
    /\ Cardinality(mikrotikDevices) = 2
    /\ \E k \in mikrotikDevices :
          device[k].status = "error" /\ device[k].uptime # "null"
    /\ out.reply # <<>>
    /\ out.reply[1].op = "update"
    /\ out.reply[1].code = 200

\* The value of the last call, if it was a call of `method`.
Called(method) == out.reply # <<>> /\ out.reply[1].op = method

\* C25: getActiveAlerts returns the alerts whose resolved flag is false, each
\* once and in the order of the alert log (most recent first), and the call
\* changes neither log.
C25_ActiveAlerts ==
    /\ [](Called("getActiveAlerts") =>
            LET body == out.reply[1].body
                keep == {k \in 1..Len(alerts) : ~alerts[k].resolved}
            IN  /\ Len(body) = Cardinality(keep)
                /\ \A k \in keep :
                      body[Cardinality({j \in keep : j <= k})] = alerts[k]
                /\ \A i, j \in 1..Len(body) : i < j => body[i].id > body[j].id)
    /\ [][Called("getActiveAlerts")' => events' = events /\ alerts' = alerts]_vars

\* getActiveAlerts has returned some alerts of a log of MaxAlerts and left
\* out the resolved ones.
C25_Witness ==
    /\ Called("getActiveAlerts")
    /\ Len(alerts) = MaxAlerts
    /\ Len(out.reply[1].body) > 0
    /\ Len(out.reply[1].body) < Len(alerts)

\* C26: getRecentEvents(limit) returns the first min(limit, length) events of
\* the event log, limit being 50 when no argument is given, and the call
\* leaves the event log as it was.
C26_RecentEvents ==
    /\ [](Called("getRecentEvents") =>
            LET body == out.reply[1].body
                args == out.reply[1].args
                limit == IF Len(args) = 0 THEN 50 ELSE args[1]
            IN  /\ Len(body) = Min(limit, Len(events))
                /\ \A i \in 1..Len(body) : body[i] = events[i])
    /\ [][Called("getRecentEvents")' => events' = events]_vars

\* getRecentEvents, called without a limit on a log of more than 50 events,
\* has returned 50.
C26_Witness ==
    /\ Called("getRecentEvents")
    /\ out.reply[1].args = <<>>
    /\ Len(events) > DefaultLimit
    /\ Len(out.reply[1].body) = DefaultLimit

\* C27: when a handler publishes a change of the registry, send() is called
\* with the message on every client that is open and on no client that is not.
C27_OpenSentClosedSkipped ==
    [][\A r \in Range(out'.reply) :
          (r.op \in {"add", "remove"} /\ mikrotikDevices' # mikrotikDevices) =>
             \A i \in 1..Len(clients) :
                IF clients[i].readyState = OPEN
                THEN clients'[i].sent = <<Announced(r)>>
                ELSE clients'[i] = clients[i]]_vars

\* C28: no step takes an address out of suspiciousIPs, and a step adds exactly
\* the addresses of the connection_flooding events it recorded; the address of
\* every connection_flooding event in the log is in the set.
C28_SuspiciousIPsGrow ==
    /\ [](\A i \in 1..Len(events) :
            events[i].type = "connection_flooding" =>
               events[i].details.srcIP \in suspiciousIPs)
    /\ [][LET recorded == {i \in 1..Len(events') : events'[i].id > eventCount}
              flooding == {i \in recorded : events'[i].type = "connection_flooding"}
          IN  /\ suspiciousIPs \subseteq suspiciousIPs'
              /\ suspiciousIPs' \ suspiciousIPs
                    \subseteq {events'[i].details.srcIP : i \in flooding}
              /\ \A i \in flooding :
                    events'[i].details.srcIP \in suspiciousIPs']_vars

\* An address marked by one analysis is still in the set after a later
\* analysis of a snapshot without it.
C28_Witness ==
    /\ "203.0.113.9" \in suspiciousIPs
    /\ polls = 2
    /\ events # <<>>
    /\ events[1].type # "connection_flooding"
    /\ events[1].id > 1

\* The connections of a snapshot to one port, and where a port is first met.
To(connections, port) == SelectSeq(connections, LAMBDA c : c.dstPort = port)

FirstTo(connections, port) ==
    CHOOSE i \in 1..Len(connections) :
        /\ connections[i].dstPort = port
        /\ \A j \in 1..(i - 1) : connections[j].dstPort # port

\* Port p comes before port q in the order of topPorts: more connections, or
\* as many and met earlier in the snapshot.
Before(connections, p, q) ==
    \/ Len(To(connections, p)) > Len(To(connections, q))
    \/ /\ Len(To(connections, p)) = Len(To(connections, q))
       /\ FirstTo(connections, p) < FirstTo(connections, q)

\* C29: the analysis of a well-formed snapshot returns the number of its
\* records, the number of its distinct source addresses, and in topPorts the
\* (port, count) pairs of the 10 ports (all, if fewer) that come first by
\* count descending and, for equal counts, by first occurrence, in that order.
C29_Aggregates ==
    Analysed =>
       LET conns == call.connections
           top == call.result.topPorts
           ports == {conns[i].dstPort : i \in 1..Len(conns)}
       IN  /\ call.result.totalConnections = Len(conns)
           /\ call.result.uniqueIPs
                 = Cardinality({conns[i].srcAddress : i \in 1..Len(conns)})
           /\ Len(top) = Min(10, Cardinality(ports))
           /\ \A k \in 1..Len(top) :
                 /\ top[k][1] \in ports
                 /\ top[k][2] = Len(To(conns, top[k][1]))
                 /\ \A l \in (k + 1)..Len(top) : Before(conns, top[k][1], top[l][1])
                 /\ \A q \in ports \ {top[l][1] : l \in 1..Len(top)} :
                       Before(conns, top[k][1], q)

\* topPorts was cut to 10 of 12 ports, its first port being one that was met
\* last in the snapshot, and equal counts follow it.
C29_Witness ==
    /\ Analysed
    /\ Len(call.result.topPorts) = 10
    /\ FirstTo(call.connections, call.result.topPorts[1][1]) = 12
    /\ call.result.topPorts[1][2] = 4
    /\ call.result.topPorts[2][2] = 1
    /\ call.result.topPorts[10][2] = 1
    /\ call.result.uniqueIPs = 2

\* The severity table of the four kinds of activity.
SeverityOf ==
    [t \in {"high_risk_connection", "connection_flooding",
            "suspicious_port_access", "unusual_traffic_pattern"} |->
        CASE t = "high_risk_connection" -> "critical"
          [] t = "connection_flooding" -> "high"
          [] t = "suspicious_port_access" -> "medium"
          [] t = "unusual_traffic_pattern" -> "low"]

Expected(type) == IF type \in DOMAIN SeverityOf THEN SeverityOf[type] ELSE "low"

C32_UnknownIdNotFound ==
    [][\A r \in Range(out'.reply) :
          (r.op \in {"status", "update", "remove"} /\ r.id \notin mikrotikDevices) =>
             /\ r.code = 404
             /\ mikrotikDevices' = mikrotikDevices
             /\ device' = device
             /\ events' = events /\ alerts' = alerts
             /\ clients' = clients
             /\ out'.published = <<>>
             /\ out'.logged = <<>>]_vars

\* A device that was removed is asked to be removed again, next to a device
\* that is registered.
C32_Witness ==
    /\ out.reply # <<>>
    /\ out.reply[1].op = "remove"
    /\ out.reply[1].code = 404
    /\ out.reply[1].id \in DOMAIN device
    /\ mikrotikDevices # {}

\* C34: every event and alert a step records, and every device_update it
\* publishes, is for a device that is in the registry.
C34_NothingForRemovedDevice ==
    [][/\ \A i \in 1..Len(events') :
            events'[i].id > eventCount => events'[i].deviceId \in mikrotikDevices
       /\ \A k \in 1..Len(alerts') :
            alerts'[k].id > alertCount => alerts'[k].deviceId \in mikrotikDevices
       /\ \A m \in Range(out'.published) :
            m.type = "device_update" => m.deviceId \in mikrotikDevices]_vars

\* C35: a step logs 'Error monitoring device' only if it is the failure of a
\* status or connections fetch, and such a step leaves the event and alert
\* logs as they were.
C35_ErrorPathOnlyOnFetchFailure ==
    [][out'.logged # <<>> =>
          /\ \E t \in TickIds : StatusFail(t) \/ ConnsFail(t)
          /\ events' = events
          /\ alerts' = alerts]_vars

\* C36: an add request answered with success has put the new device, status
\* connected, in the registry; one answered with a failure has left the
\* registry as it was and has sent device_added to no client.
C36_AddAllOrNothing ==
    [][\A r \in Range(out'.reply) :
          r.op = "add" =>
             IF r.code = 200
             THEN /\ r.id \in mikrotikDevices' \ mikrotikDevices
                  /\ device'[r.id].status = "connected"
             ELSE /\ mikrotikDevices' = mikrotikDevices
                  /\ out'.published = <<>>
                  /\ \A i \in 1..Len(clients) : clients'[i].sent = clients[i].sent]_vars

\* C37: an update answered with an error leaves the device object, its host
\* and its status among the rest, as it was, and publishes no device_updated.
C37_FailedUpdateChangesNothing ==
    [][\A r \in Range(out'.reply) :
          (r.op = "update" /\ r.code = 500) =>
             /\ device'[r.id] = device[r.id]
             /\ out'.published = <<>>]_vars

\* C38: the step that analyses a device's snapshot records all the events of
\* that analysis, for that device, at the head of the event log with
\* consecutive ids, and leaves every older event and alert as it was.
C38_AnalysisContiguous ==
    [][\A t \in TickIds, c \in PollSnapshots :
          ConnsOk(t, c) =>
             LET n == Len(PerformConnectionAnalysis(c).suspiciousActivity)
                 m == alertCount' - alertCount
             IN  /\ eventCount' = eventCount + n
                 /\ Len(events') = Min(Len(events) + n, MaxEvents)
                 /\ \A i \in 1..Min(n, Len(events')) :
                       /\ events'[i].deviceId = tick[t].cur
                       /\ events'[i].id = eventCount + n + 1 - i
                 /\ \A i \in (n + 1)..Len(events') : events'[i] = events[i - n]
                 /\ \A k \in 1..Min(m, Len(alerts')) :
                       alerts'[k].deviceId = tick[t].cur
                 /\ \A k \in (m + 1)..Len(alerts') : alerts'[k] = alerts[k - m]]_vars

\* The event log holds the events of two analyses for two devices, each in
\* one block, and an event of the older block has been acknowledged since.
C38_Witness ==
    /\ Len(events) = 4
    /\ events[1].deviceId = events[2].deviceId
    /\ events[3].deviceId = events[4].deviceId
    /\ events[2].deviceId # events[3].deviceId
    /\ \E i \in 3..4 : events[i].acknowledged

\* The WebSockets of the App component that are not closed.
Live(a) == {i \in 1..Len(a.sockets) : a.sockets[i] # "closed"}

\* C39: the App component has at most one WebSocket that is not closed; once
\* it is unmounted it creates no WebSocket, and its cleanup leaves none open:
\* every one is closed or closing.
C39_OneConnectionUntilUnmount ==
    /\ [](Cardinality(Live(app)) <= 1)
    /\ [][app.phase = "unmounted" => Len(app'.sockets) = Len(app.sockets)]_vars
    /\ [](app.phase = "unmounted" =>
             \A i \in 1..Len(app.sockets) : app.sockets[i] \in {"closing", "closed"})

====
